---- MODULE Spec2Model ----
(***************************************************************************)
(* Model of the o8 8-puzzle solver: the compact board (src/board.rs), the  *)
(* frontier policies (src/search_strategies.rs) and the search engine      *)
(* (src/solver.rs).                                                        *)
(*                                                                         *)
(* A Board is the u32 of board.rs seen as its eight 4-bit fields: field    *)
(* val+1 of the tuple is the nibble at bits 4*val .. 4*val+3, i.e. the     *)
(* cell index of tile val+1.  (The u32 itself does not fit TLC's integers: *)
(* tile 8 in cell 8 sets bit 31.)                                          *)
(***************************************************************************)
EXTENDS Integers, Sequences, FiniteSets, TLC

VARIABLES
    board,       \* the caller's current board (random_with_solution's `board`)
    lastFrom,    \* receiver of the last move_space call
    lastDir,     \* direction of the last move_space call ("none" before any)
    lastRes,     \* "Ok" / "Err" / "Panic" outcome of the last move_space call
    steps,       \* argument of random_with_solution
    iter,        \* iterations of the scramble loop done so far
    pc,          \* "api" | "scramble" | "solve" | "done" | "cut"
    strategy,    \* "Dfs" | "Bfs" | "Heuristic": the frontier type of the Solver
    start,       \* argument of solve (ZeroBoard before the call)
    solver,      \* the Solver struct
    result,      \* what solve returned, an Option<Board> (None while it runs)
    pops,        \* iterations of solve's loop done so far in the current call
    calls,       \* solve calls made on the engine so far
    hist,        \* the frontier seen from its caller: what was enqueued and
                 \* not yet returned, in call order, and the last call's outcome
    removed,     \* the boards get_next handed to solve in the current call, in order
    par          \* run_search: the template engine and the workers' runs

vars == <<board, lastFrom, lastDir, lastRes, steps, iter, pc, strategy,
          start, solver, result, pops, calls, hist, removed, par>>

(***************************************************************************)
(* Bounds of the model.                                                    *)
(***************************************************************************)
MaxSteps == 4       \* largest `steps` for which every draw of directions is followed
MaxPops == 64       \* solve loop iterations after which such a run is cut off
MaxPopsDeep == 80   \* the same for the runs on the boards of DeepDraws
MaxScramble == 10   \* `steps` of the scrambles followed without solving them
MaxCalls == 2       \* solve calls made on one engine
MaxOps == 8         \* calls made on a frontier used on its own

(***************************************************************************)
(* board.rs: constants.                                                    *)
(***************************************************************************)
ALL_DIRECTIONS == <<"Up", "Down", "Left", "Right">>

Direction == {"Up", "Down", "Left", "Right"}

SOLVED_BOARD == <<1, 2, 3,
                  8, 0, 4,
                  7, 6, 5>>

BOARD_SIDE == 3

BOARD_AREA == BOARD_SIDE * BOARD_SIDE

TILE_BIT_SIZE == 4

NibbleRange == 2 ^ TILE_BIT_SIZE

(***************************************************************************)
(* board.rs: Board(u32) and its bit-field accessors.                       *)
(***************************************************************************)
\* F(e), with e evaluated once before F is applied: the `let x = e;` of the
\* code (TLC would otherwise re-evaluate e at every use of x)
Let(e, F(_)) == CHOOSE y \in {F(x) : x \in {e}} : TRUE

ZeroBoard == [v \in 1..(BOARD_AREA - 1) |-> 0]

\* Option<Board>
None == [some |-> FALSE, board |-> ZeroBoard]

Some(b) == [some |-> TRUE, board |-> b]

get_pos(self, value) == self[value + 1] % NibbleRange

RECURSIVE BitOr(_, _)
BitOr(a, b) ==
    IF a = 0 THEN b
    ELSE IF b = 0 THEN a
    ELSE (IF a % 2 = 1 \/ b % 2 = 1 THEN 1 ELSE 0) + 2 * BitOr(a \div 2, b \div 2)

\* set_value without `self.0 &= !mask`
set_value_no_clear(self, p, val) ==
    [self EXCEPT ![val + 1] = BitOr(@, p) % NibbleRange]

set_value(self, p, val) == [self EXCEPT ![val + 1] = p % NibbleRange]

RECURSIVE from_arr_loop(_, _, _)
from_arr_loop(arr, pos, b) ==
    IF pos >= BOARD_AREA THEN b
    ELSE from_arr_loop(arr, pos + 1,
                       IF arr[pos + 1] # 0
                       THEN set_value(b, pos, arr[pos + 1] - 1)
                       ELSE b)

from_arr(arr) == from_arr_loop(arr, 0, ZeroBoard)

RECURSIVE into_arr_loop(_, _, _)
into_arr_loop(self, val, arr) ==
    IF val >= BOARD_AREA - 1 THEN arr
    ELSE into_arr_loop(self, val + 1,
                       [arr EXCEPT ![get_pos(self, val) + 1] = val + 1])

into_arr(self) == into_arr_loop(self, 0, [i \in 1..BOARD_AREA |-> 0])

SOLVED_BOARD_ENCODED == from_arr(SOLVED_BOARD)

Default == SOLVED_BOARD_ENCODED

is_solved(self) == self = SOLVED_BOARD_ENCODED

\* Up and Down test the wrong edge
is_valid_movement_ud(position, direction) ==
    CASE direction = "Up" -> (position \div BOARD_SIDE) # BOARD_SIDE - 1
      [] direction = "Down" -> (position \div BOARD_SIDE) # 0
      [] direction = "Left" -> (position % BOARD_SIDE) # 0
      [] direction = "Right" -> (position % BOARD_SIDE) # BOARD_SIDE - 1

\* Left is refused in cell 0 only, so it wraps to the row above
is_valid_movement_wrap(position, direction) ==
    CASE direction = "Up" -> (position \div BOARD_SIDE) # 0
      [] direction = "Down" -> (position \div BOARD_SIDE) # BOARD_SIDE - 1
      [] direction = "Left" -> (position \div BOARD_SIDE) # 0 \/ (position % BOARD_SIDE) # 0
      [] direction = "Right" -> (position % BOARD_SIDE) # BOARD_SIDE - 1

is_valid_movement(position, direction) ==
    CASE direction = "Up" -> (position \div BOARD_SIDE) # 0
      [] direction = "Down" -> (position \div BOARD_SIDE) # BOARD_SIDE - 1
      [] direction = "Left" -> (position % BOARD_SIDE) # 0
      [] direction = "Right" -> (position % BOARD_SIDE) # BOARD_SIDE - 1

\* idx.trailing_ones() of the occupancy mask: the least bit that is not set
find_space_position(self) ==
    Let({get_pos(self, val) : val \in 0..(BOARD_AREA - 2)},
        LAMBDA idx : CHOOSE n \in 0..32 : n \notin idx /\ \A m \in 0..(n - 1) : m \in idx)

\* Right from the first column of a lower row lands one row up
calculate_new_position_flipped(from, direction) ==
    IF ~is_valid_movement(from, direction)
    THEN [ok |-> FALSE, pos |-> from]
    ELSE [ok |-> TRUE,
          pos |-> CASE direction = "Up" -> from - BOARD_SIDE
                    [] direction = "Down" -> from + BOARD_SIDE
                    [] direction = "Left" -> from - 1
                    [] direction = "Right" ->
                          IF from % BOARD_SIDE = 0 /\ from \div BOARD_SIDE # 0
                          THEN from - BOARD_SIDE ELSE from + 1]

calculate_new_position(from, direction) ==
    IF ~is_valid_movement(from, direction)
    THEN [ok |-> FALSE, pos |-> from]
    ELSE [ok |-> TRUE,
          pos |-> CASE direction = "Up" -> from - BOARD_SIDE
                    [] direction = "Down" -> from + BOARD_SIDE
                    [] direction = "Left" -> from - 1
                    [] direction = "Right" -> from + 1]

\* the tile found at cell p, or -1 where the assertion of get_value fails
get_value(self, p) ==
    Let({val \in 0..(BOARD_AREA - 2) : get_pos(self, val) = p},
        LAMBDA hits : IF hits = {} THEN -1
                      ELSE CHOOSE val \in hits : \A w \in hits : val <= w)

\* move_space without the set_value call
move_space_no_write(self, direction) ==
    Let(find_space_position(self), LAMBDA space_position :
    Let(calculate_new_position(space_position, direction), LAMBDA space_new_position :
        IF ~space_new_position.ok THEN [tag |-> "Err", board |-> self]
        ELSE [tag |-> "Ok", board |-> self]))

move_space(self, direction) ==
    Let(find_space_position(self), LAMBDA space_position :
    Let(calculate_new_position(space_position, direction), LAMBDA space_new_position :
        IF ~space_new_position.ok THEN [tag |-> "Err", board |-> self]
        ELSE Let(get_value(self, space_new_position.pos), LAMBDA digit_to_move :
             IF digit_to_move = -1 THEN [tag |-> "Panic", board |-> self]
             ELSE [tag |-> "Ok",
                   board |-> set_value(self, space_position, digit_to_move)])))

Abs(x) == IF x < 0 THEN -x ELSE x

\* the difference of the cell indices instead of rows and columns
manhattan_distance_linear(pos1, pos2) == Abs(pos2 - pos1)

\* the column distance alone
manhattan_distance_columns(pos1, pos2) == Abs((pos2 % BOARD_SIDE) - (pos1 % BOARD_SIDE))

manhattan_distance(pos1, pos2) ==
    LET hdis == Abs((pos2 % BOARD_SIDE) - (pos1 % BOARD_SIDE))
        vdis == Abs((pos2 \div BOARD_SIDE) - (pos1 \div BOARD_SIDE))
    IN  hdis + vdis

RECURSIVE heuristic_loop(_, _, _)
heuristic_loop(self, val, distance) ==
    IF val >= BOARD_AREA - 1 THEN distance
    ELSE heuristic_loop(self, val + 1,
             distance + manhattan_distance(get_pos(Default, val), get_pos(self, val)))

\* the distance to the row-major grid 1..8 instead of Board::default()
RECURSIVE heuristic_row_major_loop(_, _, _)
heuristic_row_major_loop(self, val, distance) ==
    IF val >= BOARD_AREA - 1 THEN distance
    ELSE heuristic_row_major_loop(self, val + 1,
             distance + manhattan_distance(val, get_pos(self, val)))

heuristic_row_major(self) == heuristic_row_major_loop(self, 0, 0)

heuristic_distance_to_solution(self) == heuristic_loop(self, 0, 0)

(***************************************************************************)
(* board.rs: impl Ord for Board (by heuristic only), seen through          *)
(* std::cmp::Reverse as the heap of HeuristicSearchStrategy does.          *)
(***************************************************************************)
board_le(a, b) == heuristic_distance_to_solution(a) <= heuristic_distance_to_solution(b)

\* BoardWithSteps(board, steps) and its Ord: heuristic + steps
BoardWithSteps(b, s) == <<b, s>>

steps_le(a, b) ==
    heuristic_distance_to_solution(a[1]) + a[2] <= heuristic_distance_to_solution(b[1]) + b[2]

\* T::cmp of the item type T of the frontier: a Board has 8 fields, a
\* BoardWithSteps 2
cmp_le(a, b) == IF Len(a) = 2 THEN steps_le(a, b) ELSE board_le(a, b)

\* the heap without Reverse: the greatest item is at the root
reverse_le_dropped(a, b) == cmp_le(a, b)

reverse_le(a, b) == cmp_le(b, a)

(***************************************************************************)
(* search_strategies.rs: the frontier.  `nodes` is the LinkedList of       *)
(* SimpleSearchStrategy (front = index 1) or the array of the BinaryHeap   *)
(* of HeuristicSearchStrategy (root = index 1); push and pop of the heap   *)
(* are those of std's BinaryHeap (sift_up, sift_down_to_bottom).           *)
(***************************************************************************)
RECURSIVE sift_up_loop(_, _, _, _)
sift_up_loop(data, begin, pos, elem) ==
    IF pos > begin
    THEN LET parent == (pos - 1) \div 2
         IN  IF reverse_le(elem, data[parent + 1])
             THEN [data EXCEPT ![pos + 1] = elem]
             ELSE Let([data EXCEPT ![pos + 1] = data[parent + 1]],
                      LAMBDA moved : sift_up_loop(moved, begin, parent, elem))
    ELSE [data EXCEPT ![pos + 1] = elem]

sift_up(data, begin, pos) ==
    Let(data, LAMBDA d : sift_up_loop(d, begin, pos, d[pos + 1]))

RECURSIVE sift_down_loop(_, _, _, _)
sift_down_loop(data, begin, pos, elem) ==
    LET end == Len(data)
        child == 2 * pos + 1
    IN  IF end >= 2 /\ child <= end - 2
        THEN LET c == IF reverse_le(data[child + 1], data[child + 2])
                      THEN child + 1 ELSE child
             IN  Let([data EXCEPT ![pos + 1] = data[c + 1]],
                      LAMBDA moved : sift_down_loop(moved, begin, c, elem))
        ELSE IF child = end - 1
        THEN Let([data EXCEPT ![pos + 1] = data[child + 1]],
                 LAMBDA moved : sift_up_loop(moved, begin, child, elem))
        ELSE sift_up_loop(data, begin, pos, elem)

sift_down_to_bottom(data, pos) ==
    Let(data, LAMBDA d : sift_down_loop(d, pos, pos, d[pos + 1]))

heap_push(data, node) == sift_up(Append(data, node), 0, Len(data))

\* pop that forgets to move the last item to the root
heap_pop_drop_last(data) ==
    Let(SubSeq(data, 1, Len(data) - 1), LAMBDA rest :
        IF rest = <<>> THEN [item |-> data[1], nodes |-> rest]
        ELSE [item |-> rest[1], nodes |-> sift_down_to_bottom(rest, 0)])

heap_pop(data) ==
    Let(data[Len(data)], LAMBDA last :
    Let(SubSeq(data, 1, Len(data) - 1), LAMBDA rest :
        IF rest = <<>> THEN [item |-> last, nodes |-> rest]
        ELSE [item |-> rest[1],
              nodes |-> sift_down_to_bottom([rest EXCEPT ![1] = last], 0)]))

\* SimpleSearchStrategy::get_next with pop_front in the Dfs arm too
get_next_always_front(nodes) ==
    IF nodes = <<>> THEN [some |-> FALSE, item |-> Default, nodes |-> nodes]
    ELSE IF strategy = "Heuristic"
    THEN [some |-> TRUE] @@ heap_pop(nodes)
    ELSE [some |-> TRUE, item |-> Head(nodes), nodes |-> Tail(nodes)]

\* SimpleSearchStrategy::get_next with pop_back in the Bfs arm too
get_next_always_back(nodes) ==
    IF nodes = <<>> THEN [some |-> FALSE, item |-> Default, nodes |-> nodes]
    ELSE IF strategy = "Heuristic"
    THEN [some |-> TRUE] @@ heap_pop(nodes)
    ELSE [some |-> TRUE, item |-> nodes[Len(nodes)],
          nodes |-> SubSeq(nodes, 1, Len(nodes) - 1)]

get_next(nodes) ==
    IF nodes = <<>> THEN [some |-> FALSE, item |-> Default, nodes |-> nodes]
    ELSE CASE strategy = "Bfs" ->
                [some |-> TRUE, item |-> Head(nodes), nodes |-> Tail(nodes)]
           [] strategy = "Dfs" ->
                [some |-> TRUE, item |-> nodes[Len(nodes)],
                 nodes |-> SubSeq(nodes, 1, Len(nodes) - 1)]
           [] strategy = "Heuristic" ->
                [some |-> TRUE] @@ heap_pop(nodes)

enqueue(nodes, node) ==
    IF strategy = "Heuristic" THEN heap_push(nodes, node) ELSE Append(nodes, node)

len(nodes) == Len(nodes)

(***************************************************************************)
(* solver.rs: a Solver as constructed by Solver::new (all fields default). *)
(***************************************************************************)
EmptyMap == [x \in {} |-> x]

NewSolver ==
    [parents |-> EmptyMap,
     boards_checked |-> {},
     boards_to_check |-> <<>>,
     to_check_size |-> <<>>,
     depth_by_board |-> EmptyMap,
     generated_nodes |-> 0,
     enqueued_nodes |-> 0,
     duplicates_pruned |-> 0,
     max_depth_reached |-> 0]

MapGet(map, key, default) == IF key \in DOMAIN map THEN map[key] ELSE default

MapInsert(map, key, value) == (key :> value) @@ map

init_search(self, st) ==
    [self EXCEPT !.boards_to_check = enqueue(@, st),
                 !.depth_by_board = MapInsert(@, st, 0)]

\* the size before the removal: one more than the frontier holds now
record_frontier_size_before(self) ==
    [self EXCEPT !.to_check_size = Append(@, len(self.boards_to_check) + 1)]

record_frontier_size(self) ==
    [self EXCEPT !.to_check_size = Append(@, len(self.boards_to_check))]

\* nothing is inserted into boards_checked
mark_explored_nothing(self, b) == self

mark_explored(self, b) == [self EXCEPT !.boards_checked = @ \cup {b}]

\* parents.insert(parent, child)
enqueue_successor_swapped(self, parent, child) ==
    Let(MapGet(self.depth_by_board, parent, 0), LAMBDA parent_depth :
    Let(parent_depth + 1, LAMBDA depth :
        [self EXCEPT !.boards_to_check = enqueue(@, child),
                     !.enqueued_nodes = @ + 1,
                     !.parents = MapInsert(@, parent, child),
                     !.depth_by_board = MapInsert(@, child, depth),
                     !.max_depth_reached = IF depth > @ THEN depth ELSE @]))

\* the child is recorded at the depth of its parent
enqueue_successor_same_depth(self, parent, child) ==
    Let(MapGet(self.depth_by_board, parent, 0), LAMBDA parent_depth :
    Let(parent_depth, LAMBDA depth :
        [self EXCEPT !.boards_to_check = enqueue(@, child),
                     !.enqueued_nodes = @ + 1,
                     !.parents = MapInsert(@, child, parent),
                     !.depth_by_board = MapInsert(@, child, depth),
                     !.max_depth_reached = IF depth > @ THEN depth ELSE @]))

enqueue_successor(self, parent, child) ==
    Let(MapGet(self.depth_by_board, parent, 0), LAMBDA parent_depth :
    Let(parent_depth + 1, LAMBDA depth :
        [self EXCEPT !.boards_to_check = enqueue(@, child),
                     !.enqueued_nodes = @ + 1,
                     !.parents = MapInsert(@, child, parent),
                     !.depth_by_board = MapInsert(@, child, depth),
                     !.max_depth_reached = IF depth > @ THEN depth ELSE @]))

\* the duplicate test looks up the parent instead of the child
process_move_parent_test(self, parent, dir) ==
    Let(move_space(parent, dir), LAMBDA r :
        IF r.tag = "Ok"
        THEN Let([self EXCEPT !.generated_nodes = @ + 1], LAMBDA s1 :
                 IF parent \notin s1.boards_checked
                 THEN enqueue_successor(s1, parent, r.board)
                 ELSE [s1 EXCEPT !.duplicates_pruned = @ + 1])
        ELSE self)

\* every successor is enqueued, explored or not
process_move_no_prune(self, parent, dir) ==
    Let(move_space(parent, dir), LAMBDA r :
        IF r.tag = "Ok"
        THEN Let([self EXCEPT !.generated_nodes = @ + 1], LAMBDA s1 :
                 enqueue_successor(s1, parent, r.board))
        ELSE self)

\* generated_nodes is counted before the move is known to be legal
process_move_count_all(self, parent, dir) ==
    Let(move_space(parent, dir), LAMBDA r :
        Let([self EXCEPT !.generated_nodes = @ + 1], LAMBDA s1 :
            IF r.tag = "Ok"
            THEN IF r.board \notin s1.boards_checked
                 THEN enqueue_successor(s1, parent, r.board)
                 ELSE [s1 EXCEPT !.duplicates_pruned = @ + 1]
            ELSE s1))

process_move(self, parent, dir) ==
    Let(move_space(parent, dir), LAMBDA r :
        IF r.tag = "Ok"
        THEN Let([self EXCEPT !.generated_nodes = @ + 1], LAMBDA s1 :
                 IF r.board \notin s1.boards_checked
                 THEN enqueue_successor(s1, parent, r.board)
                 ELSE [s1 EXCEPT !.duplicates_pruned = @ + 1])
        ELSE self)

RECURSIVE expand_loop(_, _, _)
expand_loop(self, b, k) ==
    IF k > Len(ALL_DIRECTIONS) THEN self
    ELSE Let(process_move(self, b, ALL_DIRECTIONS[k]),
             LAMBDA moved : expand_loop(moved, b, k + 1))

expand_neighbors(self, b) == expand_loop(self, b, 1)

\* the chain of parents from c; `fuel` bounds it by the number of entries, and
\* a chain that outlives its fuel (a cycle: the code would not return) ends in
\* LoopMark, which is no board
LoopMark == [v \in 1..(BOARD_AREA - 1) |-> -1]

RECURSIVE parent_chain(_, _, _)
parent_chain(self, c, fuel) ==
    IF c \notin DOMAIN self.parents THEN <<c>>
    ELSE IF fuel = 0 THEN <<c, LoopMark>>
    ELSE <<c>> \o parent_chain(self, self.parents[c], fuel - 1)

Reverse(s) == [i \in 1..Len(s) |-> s[Len(s) + 1 - i]]

step_by_step_solution(self) ==
    Reverse(parent_chain(self, Default, Cardinality(DOMAIN self.parents)))

saturating_sub(a, b) == IF a >= b THEN a - b ELSE 0

\* the number of boards of the path instead of the number of moves
solution_moves_len(self) == Len(step_by_step_solution(self))

solution_moves(self) == saturating_sub(Len(step_by_step_solution(self)), 1)

\* iter().copied().sum() and iter().copied().max().unwrap_or(0)
RECURSIVE SeqSum(_)
SeqSum(s) == IF s = <<>> THEN 0 ELSE s[1] + SeqSum(Tail(s))

RECURSIVE SeqMax(_)
SeqMax(s) ==
    IF s = <<>> THEN 0
    ELSE LET rest == SeqMax(Tail(s)) IN IF s[1] > rest THEN s[1] ELSE rest

\* Stats without duration_ms (wall-clock time); avg_frontier, an f64 quotient,
\* is kept as its numerator and denominator
get_solution_stats(self) ==
    [nodes_explored |-> Cardinality(self.boards_checked),
     solution_moves |-> solution_moves(self),
     max_frontier |-> SeqMax(self.to_check_size),
     avg_frontier |-> [sum |-> SeqSum(self.to_check_size),
                       size |-> IF Len(self.to_check_size) > 1
                                THEN Len(self.to_check_size) ELSE 1],
     generated_nodes |-> self.generated_nodes,
     enqueued_nodes |-> self.enqueued_nodes,
     duplicates_pruned |-> self.duplicates_pruned,
     max_depth_reached |-> self.max_depth_reached]

(***************************************************************************)
(* A run of the program: random_with_solution(steps) draws a direction per *)
(* iteration, then a fresh Solver of one of the three frontier types       *)
(* solves the board; each step of the solve loop is one action.            *)
(*                                                                         *)
(* For steps <= MaxSteps every draw is followed.  Two longer scrambles are *)
(* followed for one draw each (DeepDraws), far enough from the goal for    *)
(* boards to enter the frontier more than once and for the frontier orders *)
(* to differ in the paths they return.                                     *)
(***************************************************************************)
Strategies == {"Dfs", "Bfs", "Heuristic"}

\* run_search not called
NoPar == [engines |-> <<>>, workers |-> <<>>]

\* nothing enqueued, no call made yet
NoHist ==
    [op |-> "none", before |-> <<>>, pending |-> <<>>, ret |-> None,
     enq |-> 0, deq |-> 0, ops |-> 0]

DeepDraws ==
    {<<"Right", "Up", "Left", "Down", "Left", "Down", "Right", "Right", "Up",
       "Left", "Up", "Right">>,
     <<"Down", "Left", "Up", "Right", "Up", "Left">>}

\* the directions the rng may yield in the next iteration of the scramble
Draws ==
    IF steps <= MaxSteps THEN Direction
    ELSE {draws[iter + 1] : draws \in {d \in DeepDraws : Len(d) = steps /\ iter < steps}}

PopLimit == IF steps <= MaxSteps THEN MaxPops ELSE MaxPopsDeep

Init ==
    /\ board = Default
    /\ lastFrom = Default
    /\ lastDir = "none"
    /\ lastRes = "none"
    /\ steps \in (0..MaxSteps) \cup {Len(draws) : draws \in DeepDraws}
    /\ iter = 0
    /\ pc = "scramble"
    /\ strategy \in Strategies
    /\ start = ZeroBoard
    /\ solver = NewSolver
    /\ result = None
    /\ pops = 0
    /\ calls = 0
    /\ hist = NoHist
    /\ removed = <<>>
    /\ par = NoPar

\* an iteration whose direction is illegal is tried again: it is not counted
ScrambleStep_retry(d) ==
    /\ pc = "scramble"
    /\ iter < steps
    /\ LET r == move_space(board, d)
       IN  /\ board' = IF r.tag = "Ok" THEN r.board ELSE board
           /\ lastFrom' = board
           /\ lastDir' = d
           /\ lastRes' = r.tag
           /\ pc' = IF r.tag = "Panic" THEN "panic" ELSE pc
           /\ iter' = IF r.tag = "Ok" THEN iter + 1 ELSE iter
    /\ UNCHANGED <<steps, strategy, start, solver, result, pops, calls, hist,
                   removed, par>>

\* one iteration of the loop of random_with_solution
ScrambleStep(d) ==
    /\ pc = "scramble"
    /\ iter < steps
    /\ LET r == move_space(board, d)
       IN  /\ board' = IF r.tag = "Ok" THEN r.board ELSE board
           /\ lastFrom' = board
           /\ lastDir' = d
           /\ lastRes' = r.tag
           /\ pc' = IF r.tag = "Panic" THEN "panic" ELSE pc
    /\ iter' = iter + 1
    /\ UNCHANGED <<steps, strategy, start, solver, result, pops, calls, hist,
                   removed, par>>

\* solve(board) up to its loop: init_search
StartSolve ==
    /\ pc = "scramble"
    /\ iter = steps
    /\ start' = board
    /\ solver' = init_search(solver, board)
    /\ pc' = "solve"
    /\ calls' = calls + 1
    /\ removed' = <<>>
    /\ UNCHANGED <<board, lastFrom, lastDir, lastRes, steps, iter, strategy,
                   result, pops, hist, par>>

Panics(b) == \E d \in Direction : move_space(b, d).tag = "Panic"

\* one iteration of the loop of solve, or its exit with None
SolveStep ==
    /\ pc = "solve"
    /\ pops < PopLimit
    /\ \E nxt \in {get_next(solver.boards_to_check)} :
          IF ~nxt.some
          THEN /\ result' = None
               /\ pc' = "done"
               /\ UNCHANGED <<solver, pops, removed>>
          ELSE \E s1 \in {[solver EXCEPT !.boards_to_check = nxt.nodes]} :
               \E s2 \in {mark_explored(s1, nxt.item)} :
               \E s3 \in {record_frontier_size(s2)} :
                  /\ pops' = pops + 1
                  /\ removed' = Append(removed, nxt.item)
                  /\ IF is_solved(nxt.item)
                     THEN /\ solver' = s3
                          /\ result' = Some(nxt.item)
                          /\ pc' = "done"
                     ELSE /\ solver' = expand_neighbors(s3, nxt.item)
                          /\ pc' = IF Panics(nxt.item) THEN "panic" ELSE pc
                          /\ UNCHANGED result
    /\ UNCHANGED <<board, lastFrom, lastDir, lastRes, steps, iter, strategy, start,
                   calls, hist, par>>

\* the model follows a run for PopLimit iterations only
CutOff ==
    /\ pc = "solve"
    /\ pops = PopLimit
    /\ pc' = "cut"
    /\ UNCHANGED <<board, lastFrom, lastDir, lastRes, steps, iter, strategy,
                   start, solver, result, pops, calls, hist, removed, par>>

Next ==
    \/ \E d \in Draws : ScrambleStep(d)
    \/ StartSolve
    \/ SolveStep
    \/ CutOff

Spec == Init /\ [][Next]_vars

\* the program keeps running until solve returns: no step is ever withheld
SpecLive == Spec /\ WF_vars(Next)

(***************************************************************************)
(* The board API on its own: any sequence of move_space calls from         *)
(* Board::default(), the caller keeping the returned board on Ok.          *)
(***************************************************************************)
InitBoard ==
    /\ board = Default
    /\ lastFrom = Default
    /\ lastDir = "none"
    /\ lastRes = "none"
    /\ steps = 0
    /\ iter = 0
    /\ pc = "api"
    /\ strategy = "Bfs"
    /\ start = ZeroBoard
    /\ solver = NewSolver
    /\ result = None
    /\ pops = 0
    /\ calls = 0
    /\ hist = NoHist
    /\ removed = <<>>
    /\ par = NoPar

ApiMove(d) ==
    /\ pc = "api"
    /\ lastRes # "Panic"
    /\ LET r == move_space(board, d)
       IN  /\ board' = r.board
           /\ lastFrom' = board
           /\ lastDir' = d
           /\ lastRes' = r.tag
    /\ UNCHANGED <<steps, iter, pc, strategy, start, solver, result, pops, calls, hist,
                   removed, par>>

NextBoard == \E d \in Direction : ApiMove(d)

SpecBoard == InitBoard /\ [][NextBoard]_vars

(***************************************************************************)
(* random_with_solution(MaxScramble) on its own: every draw of directions  *)
(* is followed, and `iter` counts the moves tried so far.                  *)
(***************************************************************************)
InitScramble ==
    /\ board = Default
    /\ lastFrom = Default
    /\ lastDir = "none"
    /\ lastRes = "none"
    /\ steps = MaxScramble
    /\ iter = 0
    /\ pc = "scramble"
    /\ strategy = "Bfs"
    /\ start = ZeroBoard
    /\ solver = NewSolver
    /\ result = None
    /\ pops = 0
    /\ calls = 0
    /\ hist = NoHist
    /\ removed = <<>>
    /\ par = NoPar

NextScramble == \E d \in Direction : ScrambleStep(d)

SpecScramble == InitScramble /\ [][NextScramble]_vars

(***************************************************************************)
(* An engine used again: after solve returned, the caller calls solve once *)
(* more on the same Solver, on the board it has or on the goal.            *)
(***************************************************************************)
SolveAgain(b) ==
    /\ pc = "done"
    /\ calls < MaxCalls
    /\ start' = b
    /\ solver' = init_search(solver, b)
    /\ result' = None
    /\ pops' = 0
    /\ pc' = "solve"
    /\ calls' = calls + 1
    /\ removed' = <<>>
    /\ UNCHANGED <<board, lastFrom, lastDir, lastRes, steps, iter, strategy, hist, par>>

NextReuse ==
    \/ Next
    \/ \E b \in {board, Default} : SolveAgain(b)

SpecReuse == Init /\ [][NextReuse]_vars

(***************************************************************************)
(* A frontier on its own (the boards_to_check of a fresh engine), driven   *)
(* by any sequence of up to MaxOps enqueue and get_next calls.  The items  *)
(* are BoardWithSteps values, no two equal ones pending at a time, so that *)
(* each returned item is one identifiable enqueued item.                   *)
(***************************************************************************)
FrontierBoards ==
    {Default, move_space(Default, "Up").board,
     move_space(move_space(Default, "Up").board, "Left").board}

FrontierItems == {BoardWithSteps(b, s) : b \in FrontierBoards, s \in {0, 1}}

Items(seq) == {seq[i] : i \in 1..Len(seq)}

InitFrontier ==
    /\ board = Default
    /\ lastFrom = Default
    /\ lastDir = "none"
    /\ lastRes = "none"
    /\ steps = 0
    /\ iter = 0
    /\ pc = "frontier"
    /\ strategy \in Strategies
    /\ start = ZeroBoard
    /\ solver = NewSolver
    /\ result = None
    /\ pops = 0
    /\ calls = 0
    /\ hist = NoHist
    /\ removed = <<>>
    /\ par = NoPar

Enqueue(node) ==
    /\ pc = "frontier"
    /\ hist.ops < MaxOps
    /\ node \notin Items(hist.pending)
    /\ solver' = [solver EXCEPT !.boards_to_check = enqueue(@, node)]
    /\ hist' = [op |-> "enqueue",
                before |-> hist.pending,
                pending |-> Append(hist.pending, node),
                ret |-> None,
                enq |-> hist.enq + 1,
                deq |-> hist.deq,
                ops |-> hist.ops + 1]
    /\ UNCHANGED <<board, lastFrom, lastDir, lastRes, steps, iter, pc, strategy,
                   start, result, pops, calls, removed, par>>

GetNext ==
    /\ pc = "frontier"
    /\ hist.ops < MaxOps
    /\ \E nxt \in {get_next(solver.boards_to_check)} :
          /\ solver' = [solver EXCEPT !.boards_to_check = nxt.nodes]
          /\ hist' = [op |-> "get_next",
                      before |-> hist.pending,
                      pending |-> IF nxt.some
                                  THEN SelectSeq(hist.pending, LAMBDA x : x # nxt.item)
                                  ELSE hist.pending,
                      ret |-> IF nxt.some THEN Some(nxt.item) ELSE None,
                      enq |-> hist.enq,
                      deq |-> IF nxt.some THEN hist.deq + 1 ELSE hist.deq,
                      ops |-> hist.ops + 1]
    /\ UNCHANGED <<board, lastFrom, lastDir, lastRes, steps, iter, pc, strategy,
                   start, result, pops, calls, removed, par>>

NextFrontier ==
    \/ \E node \in FrontierItems : Enqueue(node)
    \/ GetNext

SpecFrontier == InitFrontier /\ [][NextFrontier]_vars

(***************************************************************************)
(* run_search(boards, &solver): every board is solved by its own task of   *)
(* the thread pool, on `solver.clone()`; the tasks interleave freely.       *)
(* par.engines holds the engines by identity (0 is the one passed in by     *)
(* reference), par.workers the position of each task.                       *)
(***************************************************************************)
NumWorkers == 2

MaxParPops == 7

ParDraws == {<<"Up", "Left">>, <<"Down", "Right", "Up">>}

\* random_with_solution when the rng yields draws
RECURSIVE Scrambled(_, _)
Scrambled(b, draws) ==
    IF draws = <<>> THEN b
    ELSE LET r == move_space(b, Head(draws))
         IN  Scrambled(IF r.tag = "Ok" THEN r.board ELSE b, Tail(draws))

ParBoards == {Scrambled(Default, draws) : draws \in ParDraws}

\* the task works on the engine passed in, no copy is made
clone_engine_alias(engines, w) == [eng |-> 0, engines |-> engines]

\* let mut solver = solver.clone(): a new engine, equal to the one passed in
clone_engine(engines, w) == [eng |-> w, engines |-> (w :> engines[0]) @@ engines]

\* one iteration of the loop of solve on engine self: "none" when the
\* frontier is empty, "found" when the goal was removed, "more" otherwise
solve_step(self) ==
    Let(get_next(self.boards_to_check), LAMBDA nxt :
        IF ~nxt.some THEN [self |-> self, state |-> "none", item |-> nxt.item]
        ELSE Let(record_frontier_size(
                     mark_explored([self EXCEPT !.boards_to_check = nxt.nodes],
                                   nxt.item)), LAMBDA s3 :
                 IF is_solved(nxt.item)
                 THEN [self |-> s3, state |-> "found", item |-> nxt.item]
                 ELSE [self |-> expand_neighbors(s3, nxt.item), state |-> "more",
                       item |-> nxt.item]))

\* a run executed alone: the loop of solve on engine self, stopped after n
\* iterations
RECURSIVE solo_loop(_, _)
solo_loop(self, n) ==
    IF n = 0 THEN [self |-> self, state |-> "more", item |-> ZeroBoard]
    ELSE Let(solve_step(self), LAMBDA r :
             IF r.state = "more" THEN solo_loop(r.self, n - 1) ELSE r)

InitPar ==
    /\ board = Default
    /\ lastFrom = Default
    /\ lastDir = "none"
    /\ lastRes = "none"
    /\ steps = 0
    /\ iter = 0
    /\ pc = "par"
    /\ strategy \in Strategies
    /\ start = ZeroBoard
    /\ solver = NewSolver
    /\ result = None
    /\ pops = 0
    /\ calls = 0
    /\ hist = NoHist
    /\ removed = <<>>
    /\ \E boards \in [1..NumWorkers -> ParBoards] :
          par = [engines |-> (0 :> NewSolver),
                 workers |-> [w \in 1..NumWorkers |->
                                [pc |-> "idle", board |-> boards[w], eng |-> 0,
                                 pops |-> 0, ret |-> None, stats |-> <<>>]]]

\* let mut solver = solver.clone()
ParClone(w) ==
    /\ par.workers[w].pc = "idle"
    /\ \E c \in {clone_engine(par.engines, w)} :
          par' = [engines |-> c.engines,
                  workers |-> [par.workers EXCEPT ![w].pc = "cloned",
                                                  ![w].eng = c.eng]]
    /\ UNCHANGED <<board, lastFrom, lastDir, lastRes, steps, iter, pc, strategy,
                   start, solver, result, pops, calls, hist, removed>>

\* solver.solve(*b) up to its loop: init_search
ParInit(w) ==
    /\ par.workers[w].pc = "cloned"
    /\ \E e \in {par.workers[w].eng} :
          par' = [engines |-> [par.engines EXCEPT
                                  ![e] = init_search(@, par.workers[w].board)],
                  workers |-> [par.workers EXCEPT ![w].pc = "solve"]]
    /\ UNCHANGED <<board, lastFrom, lastDir, lastRes, steps, iter, pc, strategy,
                   start, solver, result, pops, calls, hist, removed>>

\* one iteration of the loop of solve in task w; on its return,
\* expect("No solution found") and get_solution_stats()
ParStep(w) ==
    /\ par.workers[w].pc = "solve"
    /\ par.workers[w].pops < MaxParPops
    /\ \E e \in {par.workers[w].eng} :
       \E r \in {solve_step(par.engines[e])} :
          par' = [engines |-> [par.engines EXCEPT ![e] = r.self],
                  workers |->
                     CASE r.state = "none" ->
                            [par.workers EXCEPT ![w].pc = "panic"]
                       [] r.state = "found" ->
                            [par.workers EXCEPT
                                ![w].pc = "done",
                                ![w].pops = @ + 1,
                                ![w].ret = Some(r.item),
                                ![w].stats = get_solution_stats(r.self)]
                       [] r.state = "more" ->
                            [par.workers EXCEPT ![w].pops = @ + 1]]
    /\ UNCHANGED <<board, lastFrom, lastDir, lastRes, steps, iter, pc, strategy,
                   start, solver, result, pops, calls, hist, removed>>

\* the run of task w is followed for MaxParPops iterations only
ParCut(w) ==
    /\ par.workers[w].pc = "solve"
    /\ par.workers[w].pops = MaxParPops
    /\ par' = [par EXCEPT !.workers[w].pc = "cut"]
    /\ UNCHANGED <<board, lastFrom, lastDir, lastRes, steps, iter, pc, strategy,
                   start, solver, result, pops, calls, hist, removed>>

NextPar ==
    \E w \in 1..NumWorkers :
       \/ ParClone(w)
       \/ ParInit(w)
       \/ ParStep(w)
       \/ ParCut(w)

SpecPar == InitPar /\ [][NextPar]_vars

(***************************************************************************)
(* Notions the properties are stated in.                                   *)
(***************************************************************************)
\* the grid as into_arr decodes it: cell i holds Grid(b)[i + 1], 0 = empty
Grid(b) == into_arr(b)

\* the cell of grid g that holds 0
EmptyOf(g) == CHOOSE e \in 0..(BOARD_AREA - 1) : g[e + 1] = 0

EmptyCell(b) == EmptyOf(Grid(b))

Row(e) == e \div BOARD_SIDE

Col(e) == e % BOARD_SIDE

Opposite(d) ==
    CASE d = "Up" -> "Down"
      [] d = "Down" -> "Up"
      [] d = "Left" -> "Right"
      [] d = "Right" -> "Left"

NeighbourCell(e, d) ==
    CASE d = "Up" -> e - 3
      [] d = "Down" -> e + 3
      [] d = "Left" -> e - 1
      [] d = "Right" -> e + 1

OffGrid(e, d) ==
    CASE d = "Up" -> Row(e) = 0
      [] d = "Down" -> Row(e) = 2
      [] d = "Left" -> Col(e) = 0
      [] d = "Right" -> Col(e) = 2

\* the cell of grid g that holds label v
CellOf(g, v) == CHOOSE e \in 0..(BOARD_AREA - 1) : g[e + 1] = v

\* the sum over the labels v..8 of |row diff| + |col diff| between grids g and goal
RECURSIVE LabelDistance(_, _, _)
LabelDistance(g, goal, v) ==
    IF v > BOARD_AREA - 1 THEN 0
    ELSE Abs(Row(CellOf(g, v)) - Row(CellOf(goal, v)))
         + Abs(Col(CellOf(g, v)) - Col(CellOf(goal, v)))
         + LabelDistance(g, goal, v + 1)

\* how many entries of the frontier seq hold board c
Occurrences(seq, c) == Cardinality({i \in 1..Len(seq) : seq[i] = c})

LegalStep(a, b) == \E d \in Direction : move_space(a, d) = [tag |-> "Ok", board |-> b]

Successors(S) ==
    {move_space(b, d).board : b \in S, d \in {x \in Direction : TRUE}}

\* least number of legal moves from the boards of `layer` (at distance k) to
\* the goal, -1 if the goal cannot be reached
RECURSIVE dist_loop(_, _, _)
dist_loop(seen, layer, k) ==
    IF \E b \in layer : is_solved(b) THEN k
    ELSE LET nxt == Successors(layer) \ seen
         IN  IF nxt = {} THEN -1 ELSE dist_loop(seen \cup nxt, nxt, k + 1)

ShortestDist(b) == dist_loop({b}, {b}, 0)

\* balls[k + 1] is the set of the boards at most k legal moves away from the
\* goal, for k up to n
RECURSIVE within_loop(_, _)
within_loop(balls, n) ==
    IF Len(balls) > n THEN balls
    ELSE within_loop(Append(balls, balls[Len(balls)] \cup Successors(balls[Len(balls)])), n)

WithinMoves == within_loop(<<{Default}>>, MaxScramble + 1)

\* 8 tiles on 8 different cells of the grid
ValidBoard(b) ==
    /\ \A val \in 0..(BOARD_AREA - 2) : get_pos(b, val) \in 0..(BOARD_AREA - 1)
    /\ \A v, w \in 0..(BOARD_AREA - 2) : v # w => get_pos(b, v) # get_pos(b, w)

\* entries of the frontier of engine s whose board is already explored
ExploredEntries(s) ==
    Cardinality({i \in 1..Len(s.boards_to_check) :
                    s.boards_to_check[i] \in s.boards_checked})

\* heuristic + steps so far of a BoardWithSteps
total_cost(item) == heuristic_distance_to_solution(item[1]) + item[2]

\* the directions in which move_space succeeds on b
LegalDirections(b) == {d \in Direction : move_space(b, d).tag = "Ok"}

Returned == pc = "done" /\ result.some

RowMajorGrid == <<1, 2, 3, 4, 5, 6, 7, 8, 0>>

(***************************************************************************)
(* Properties.                                                             *)
(***************************************************************************)

\* C1: when solve(start) on a fresh engine returns a solution, the path of
\* step_by_step_solution begins with start, ends in a solved board, and each
\* state follows from the one before it by one legal move_space.
PathValid ==
    Returned =>
        LET path == step_by_step_solution(solver)
        IN  /\ path[1] = start
            /\ is_solved(path[Len(path)])
            /\ \A i \in 1..(Len(path) - 1) : LegalStep(path[i], path[i + 1])

PathValidWitness ==
    /\ Returned
    /\ strategy = "Dfs"
    /\ Len(step_by_step_solution(solver)) > 20
    /\ start # Default

BfsShortest ==
    (Returned /\ strategy = "Bfs") => solution_moves(solver) = ShortestDist(start)

\* a finished breadth-first run in which some board was enqueued more than
\* once (more enqueues than boards with a parent entry)
BfsShortestWitness ==
    /\ Returned
    /\ strategy = "Bfs"
    /\ solution_moves(solver) >= 3
    /\ solver.enqueued_nodes > Cardinality(DOMAIN solver.parents)

\* C4: with the best-first frontier the reconstructed path is a shortest one:
\* solution_moves is the least number of legal moves from start to the goal.
HeuristicShortest ==
    (Returned /\ strategy = "Heuristic") => solution_moves(solver) = ShortestDist(start)

\* C5: the 8 labels of every board obtained from Board::default by move_space
\* calls sit in 8 pairwise distinct cells of 0..8, so exactly one cell is free.
LabelsDistinct ==
    LET cells == {get_pos(board, val) : val \in 0..(BOARD_AREA - 2)}
    IN  /\ cells \subseteq 0..(BOARD_AREA - 1)
        /\ Cardinality(cells) = BOARD_AREA - 1
        /\ Cardinality((0..(BOARD_AREA - 1)) \ cells) = 1

LabelsDistinctWitness ==
    /\ lastRes = "Ok"
    /\ board # Default
    /\ get_pos(board, 0) = 8
    /\ get_pos(board, 7) = 0

\* C6: the goal is the grid 1..8 in row-major order with the empty cell last;
\* is_solved holds of exactly that grid and the heuristic of that grid is 0.
GoalIsRowMajor ==
    /\ Grid(Default) = RowMajorGrid
    /\ is_solved(board) <=> Grid(board) = RowMajorGrid
    /\ heuristic_distance_to_solution(from_arr(RowMajorGrid)) = 0

\* C7: a legal move followed by the opposite direction succeeds and gives
\* back the board the first move was made from.
MoveReversible ==
    lastRes = "Ok" =>
        move_space(board, Opposite(lastDir)) = [tag |-> "Ok", board |-> lastFrom]

\* the goal, moved Up: Down leads back to the goal
MoveReversibleWitness ==
    /\ lastRes = "Ok"
    /\ lastFrom = Default
    /\ lastDir = "Up"
    /\ board # Default
    /\ is_solved(move_space(board, "Down").board)

LegalMoveCount ==
    LET e == EmptyCell(board)
        n == Cardinality({d \in Direction : move_space(board, d).tag = "Ok"})
    IN  /\ e \in {0, 2, 6, 8} => n = 2
        /\ e \in {1, 3, 5, 7} => n = 3
        /\ e = 4 => n = 4

LegalMoveCountWitness ==
    /\ lastRes = "Ok"
    /\ EmptyCell(board) = 6
    /\ Cardinality({d \in Direction : move_space(board, d).tag = "Ok"}) = 2

\* C11: the heuristic is admissible: a board reached from the goal by at most
\* k moves (k = iter tries of the scramble, failed ones included) has
\* heuristic at most k, and the heuristic of the goal is 0.
HeuristicAdmissible ==
    /\ heuristic_distance_to_solution(board) <= iter
    /\ heuristic_distance_to_solution(Default) = 0

\* a board whose heuristic is exactly the number of moves made
HeuristicAdmissibleWitness ==
    /\ iter = MaxScramble
    /\ lastRes = "Ok"
    /\ heuristic_distance_to_solution(board) = MaxScramble

\* C13: solve terminates: every iteration of its loop either explores a board
\* that was not explored before, or (when it removes a duplicate entry of an
\* explored board and expands it again) leaves fewer entries of explored
\* boards in the frontier; and only valid boards, of which there are finitely
\* many, are ever explored.
SolveTerminates ==
    /\ [][(pc = "solve" /\ pops' = pops + 1) =>
            \/ Cardinality(solver'.boards_checked) > Cardinality(solver.boards_checked)
            \/ /\ solver'.boards_checked = solver.boards_checked
               /\ ExploredEntries(solver') < ExploredEntries(solver)]_vars
    /\ [](\A b \in solver.boards_checked : ValidBoard(b))

\* a run that went on after removing and expanding a duplicate entry
SolveTerminatesWitness ==
    /\ pc = "solve"
    /\ pops > Cardinality(solver.boards_checked)
    /\ solver.boards_to_check # <<>>

\* C14: when a call of solve(start) has done its initialisation, also on an
\* engine that completed a search before, the frontier holds exactly start,
\* depth[start] = 0, and parents, explored set, frontier-size history and the
\* four counters are empty or zero.
FreshAtStart ==
    (pc = "solve" /\ pops = 0) =>
        /\ solver.boards_to_check = <<start>>
        /\ start \in DOMAIN solver.depth_by_board
        /\ solver.depth_by_board[start] = 0
        /\ solver.parents = EmptyMap
        /\ solver.boards_checked = {}
        /\ solver.to_check_size = <<>>
        /\ solver.generated_nodes = 0
        /\ solver.enqueued_nodes = 0
        /\ solver.duplicates_pruned = 0
        /\ solver.max_depth_reached = 0

\* C15: a get_next call on a non-empty depth-first frontier returns the most
\* recently enqueued item that was not yet returned, and removes it.
DfsLifo ==
    (strategy = "Dfs" /\ hist.op = "get_next" /\ hist.before # <<>>) =>
        /\ hist.ret = Some(hist.before[Len(hist.before)])
        /\ hist.pending = SubSeq(hist.before, 1, Len(hist.before) - 1)
        /\ Items(solver.boards_to_check) = Items(hist.pending)

\* an item enqueued after an earlier removal is returned before older ones
DfsLifoWitness ==
    /\ strategy = "Dfs"
    /\ hist.op = "get_next"
    /\ hist.deq = 2
    /\ hist.enq = 4
    /\ Len(hist.before) = 3
    /\ hist.ret = Some(hist.before[3])

\* C16: a get_next call on a non-empty breadth-first frontier returns the
\* earliest enqueued item that was not yet returned, and removes it.
BfsFifo ==
    (strategy = "Bfs" /\ hist.op = "get_next" /\ hist.before # <<>>) =>
        /\ hist.ret = Some(hist.before[1])
        /\ hist.pending = SubSeq(hist.before, 2, Len(hist.before))
        /\ Items(solver.boards_to_check) = Items(hist.pending)

BfsFifoWitness ==
    /\ strategy = "Bfs"
    /\ hist.op = "get_next"
    /\ hist.deq = 2
    /\ hist.enq = 4
    /\ Len(hist.before) = 3
    /\ hist.ret = Some(hist.before[1])

FrontierAccounting ==
    pc = "frontier" =>
        /\ len(solver.boards_to_check) = hist.enq - hist.deq
        /\ len(solver.boards_to_check) = Len(hist.pending)
        /\ Items(solver.boards_to_check) = Items(hist.pending)
        /\ hist.op = "enqueue" =>
               Items(solver.boards_to_check) =
                   Items(hist.before) \cup {hist.pending[Len(hist.pending)]}
        /\ hist.op = "get_next" =>
               /\ hist.ret.some <=> hist.before # <<>>
               /\ hist.before = <<>> => solver.boards_to_check = <<>>
               /\ hist.ret.some =>
                      /\ hist.ret.board \in Items(hist.before)
                      /\ Items(solver.boards_to_check) =
                             Items(hist.before) \ {hist.ret.board}

\* get_next on a frontier emptied by earlier calls
FrontierAccountingWitness ==
    /\ pc = "frontier"
    /\ strategy = "Heuristic"
    /\ hist.op = "get_next"
    /\ hist.before = <<>>
    /\ hist.ret = None
    /\ hist.enq = 2
    /\ hist.deq = 2
    /\ solver.boards_to_check = <<>>

\* C19: random_with_solution(0) is the goal board; solve on it returns at the
\* first removal, under each frontier, without generating or enqueueing any
\* successor; the path is the goal alone and solution_moves is 0.
ZeroScramble ==
    steps = 0 =>
        /\ board = Default
        /\ pc \in {"scramble", "solve", "done"}
        /\ pc = "solve" => (pops = 0 /\ start = Default)
        /\ pc = "done" =>
               /\ result = Some(Default)
               /\ pops = 1
               /\ solver.generated_nodes = 0
               /\ solver.enqueued_nodes = 0
               /\ solver.boards_to_check = <<>>
               /\ step_by_step_solution(solver) = <<Default>>
               /\ solution_moves(solver) = 0

ZeroScrambleWitness ==
    /\ steps = 0
    /\ pc = "done"
    /\ strategy = "Dfs"
    /\ result = Some(board)
    /\ solution_moves(solver) = 0

\* C20: a best-first search from a board whose shortest distance to the goal
\* is 3 returns (within PopLimit iterations) and reports solution_moves = 3.
HeuristicThree ==
    (pc \in {"done", "cut"} /\ strategy = "Heuristic" /\ ShortestDist(start) = 3) =>
        /\ Returned
        /\ solution_moves(solver) = 3

\* such a run that was scrambled with 4 draws, so not by the 3 moves of the
\* shortest path back
HeuristicThreeWitness ==
    /\ Returned
    /\ strategy = "Heuristic"
    /\ steps = 4
    /\ ShortestDist(start) = 3
    /\ solution_moves(solver) = 3

\* C21: an iteration of solve that expands the removed board raises
\* generated_nodes by the number of legal directions, enqueued_nodes by the
\* number of those whose neighbour is not explored at that moment (these are
\* the boards the frontier gains) and duplicates_pruned by the rest, illegal
\* directions counting nowhere; and generated_nodes = enqueued_nodes +
\* duplicates_pruned in every state.
CountersAddUp ==
    /\ [][(pc = "solve" /\ pc' = "solve" /\ pops' = pops + 1) =>
            LET item == get_next(solver.boards_to_check).item
                legal == LegalDirections(item)
                fresh == {d \in legal :
                             move_space(item, d).board \notin solver.boards_checked \cup {item}}
            IN  /\ solver'.generated_nodes = solver.generated_nodes + Cardinality(legal)
                /\ solver'.enqueued_nodes = solver.enqueued_nodes + Cardinality(fresh)
                /\ solver'.duplicates_pruned =
                       solver.duplicates_pruned + Cardinality(legal) - Cardinality(fresh)
                /\ Len(solver'.boards_to_check) =
                       Len(solver.boards_to_check) - 1 + Cardinality(fresh)
                /\ \A d \in fresh :
                       move_space(item, d).board \in Items(solver'.boards_to_check)]_vars
    /\ [](solver.generated_nodes = solver.enqueued_nodes + solver.duplicates_pruned)

\* a run in which neighbours were pruned, others enqueued, and some direction
\* was illegal
CountersAddUpWitness ==
    /\ pc = "solve"
    /\ solver.duplicates_pruned >= 2
    /\ solver.enqueued_nodes >= 2
    /\ solver.generated_nodes < 4 * pops

\* C22: within one run no board is expanded twice: the boards removed from
\* the frontier (each is expanded, unless it is the goal, which ends the run)
\* are pairwise different.
NoReExpansion ==
    \A i, j \in 1..Len(removed) : i # j => removed[i] # removed[j]

\* C23: every removal records one frontier size, the size the frontier has
\* after the removal and before the expansion: the n-th one is 1 + (the
\* enqueued_nodes of that moment) - n; and max_frontier of the statistics is
\* the greatest of the sizes recorded.
FrontierSizes ==
    /\ [][(pops' = pops + 1) =>
            /\ solver'.to_check_size =
                   Append(solver.to_check_size, 1 + solver.enqueued_nodes - pops')
            /\ solver'.to_check_size[pops'] = Len(solver.boards_to_check) - 1]_vars
    /\ [](/\ Len(solver.to_check_size) = Len(removed)
          /\ solver.to_check_size # <<>> =>
                 LET sizes == Items(solver.to_check_size)
                     mx == get_solution_stats(solver).max_frontier
                 IN  mx \in sizes /\ \A x \in sizes : x <= mx)

\* a finished run whose greatest recorded size was neither the first nor the
\* last one recorded
FrontierSizesWitness ==
    /\ pc = "done"
    /\ Len(solver.to_check_size) > 3
    /\ get_solution_stats(solver).max_frontier > solver.to_check_size[1]
    /\ get_solution_stats(solver).max_frontier > solver.to_check_size[Len(solver.to_check_size)]

\* C24: in a best-first run the frontier is keyed by heuristic + recorded
\* depth: every removal takes a state whose heuristic plus the depth the engine
\* records for it is no greater than that of any state left in the frontier.
KeyIsTotalCost ==
    [][(strategy = "Heuristic" /\ pops' = pops + 1) =>
          LET cost(x) == heuristic_distance_to_solution(x) + solver.depth_by_board[x]
          IN  \A x \in Items(solver.boards_to_check) :
                 cost(removed'[pops']) <= cost(x)]_vars

\* C25: the heuristic of a board is the sum over the labels 1..8 of
\* |row diff| + |col diff| between the label's cell and its cell in the goal,
\* and it is consistent: every legal move changes it by exactly 1, so
\* heuristic(s) <= 1 + heuristic(s').
HeuristicConsistent ==
    LET hs == heuristic_distance_to_solution(board)
    IN  /\ hs = LabelDistance(Grid(board), Grid(Default), 1)
        /\ \A d \in Direction :
              LET r == move_space(board, d)
              IN  r.tag = "Ok" =>
                     LET ht == heuristic_distance_to_solution(r.board)
                     IN  hs <= 1 + ht /\ Abs(hs - ht) = 1

\* a scrambled board that a move has just brought closer to the goal and that
\* has both a legal move lowering the heuristic and one raising it
HeuristicConsistentWitness ==
    /\ lastRes = "Ok"
    /\ heuristic_distance_to_solution(board) = heuristic_distance_to_solution(lastFrom) - 1
    /\ heuristic_distance_to_solution(board) > 2
    /\ \E d \in Direction :
          /\ move_space(board, d).tag = "Ok"
          /\ heuristic_distance_to_solution(move_space(board, d).board)
                = heuristic_distance_to_solution(board) + 1

\* C26: after a successful run the statistics report nodes_explored = the
\* number of distinct boards removed from the frontier (the goal among them),
\* solution_moves = the length of the reconstructed path minus one, and the
\* generated, enqueued, pruned and max-depth values of the engine's counters.
StatsReport ==
    Returned =>
       LET st == get_solution_stats(solver)
       IN  /\ st.nodes_explored = Cardinality(Items(removed))
           /\ result.board \in Items(removed)
           /\ st.solution_moves = Len(step_by_step_solution(solver)) - 1
           /\ st.generated_nodes = solver.generated_nodes
           /\ st.enqueued_nodes = solver.enqueued_nodes
           /\ st.duplicates_pruned = solver.duplicates_pruned
           /\ st.max_depth_reached = solver.max_depth_reached
           /\ st.generated_nodes = st.enqueued_nodes + st.duplicates_pruned

\* a successful run that removed some board twice, so that the removals
\* outnumber the boards explored
StatsReportWitness ==
    /\ Returned
    /\ get_solution_stats(solver).solution_moves >= 3
    /\ get_solution_stats(solver).duplicates_pruned > 0
    /\ Len(removed) > get_solution_stats(solver).nodes_explored

\* C28: run_search gives every run its own clone of the engine: under every
\* interleaving of the tasks, the engine of each run (frontier, explored set,
\* parents, depths, frontier sizes and counters), its result and its
\* statistics are those of the same run executed alone on a new engine, and
\* the engine passed in stays as it was.
RunsIsolated ==
    /\ par.engines[0] = NewSolver
    /\ \A w \in 1..NumWorkers :
          LET wk == par.workers[w]
          IN  wk.pc \in {"solve", "done", "cut"} =>
                 LET solo == solo_loop(init_search(NewSolver, wk.board), wk.pops)
                 IN  /\ par.engines[wk.eng] = solo.self
                     /\ (wk.pc = "done") <=> (solo.state = "found")
                     /\ wk.pc = "done" =>
                            /\ wk.ret = Some(solo.item)
                            /\ wk.stats = get_solution_stats(solo.self)
                            /\ step_by_step_solution(par.engines[wk.eng])
                                  = step_by_step_solution(solo.self)

\* two tasks on different boards, both in the middle of their runs
RunsIsolatedWitness ==
    /\ pc = "par"
    /\ par.workers[1].board # par.workers[2].board
    /\ par.workers[1].pc = "solve" /\ par.workers[1].pops >= 2
    /\ par.workers[2].pc = "solve" /\ par.workers[2].pops >= 2

\* C29: every iteration of random_with_solution either makes one legal move
\* or, when the direction drawn is illegal, leaves the board as it is and is
\* counted all the same (no retry); so the board is always a valid board at
\* most `iter` (hence at most `steps`) legal moves away from the goal.
ScrambleSkips ==
    /\ [][/\ iter' = iter + 1
          /\ lastRes' = "Ok" => LegalStep(board, board')
          /\ lastRes' # "Ok" =>
                (board' = board /\ OffGrid(EmptyCell(board), lastDir'))]_vars
    /\ [](ValidBoard(board) /\ iter <= steps /\ board \in WithinMoves[iter + 1])

\* the scramble is over, its last draw was illegal and skipped, and the board
\* is fewer than `steps` moves away from the goal
ScrambleSkipsWitness ==
    /\ iter = steps
    /\ steps = MaxScramble
    /\ lastRes = "Err"
    /\ board # Default
    /\ board \in WithinMoves[steps]

\* C30: in every state of a run on a new engine the start board has no parent
\* entry; the boards with an entry are those enqueued as a neighbour (the
\* boards of the frontier and the explored ones, the start excepted); every
\* entry parents[c] = p has p explored and c one legal move from p; and the
\* chain of parents from any board ends at the start without a cycle.
ParentsWellFormed ==
    LET ps == solver.parents
    IN  /\ start \notin DOMAIN ps
        /\ DOMAIN ps = (Items(solver.boards_to_check) \cup solver.boards_checked) \ {start}
        /\ DOMAIN solver.depth_by_board = DOMAIN ps \cup (IF pc = "scramble" THEN {} ELSE {start})
        /\ \A c \in DOMAIN ps :
              /\ ps[c] \in solver.boards_checked
              /\ LegalStep(ps[c], c)
              /\ LET chain == parent_chain(solver, c, Cardinality(DOMAIN ps))
                 IN  chain[Len(chain)] = start

\* a finished run with entries for boards still in the frontier and a chain
\* of at least three links
ParentsWellFormedWitness ==
    /\ Returned
    /\ Cardinality(DOMAIN solver.parents) >= 8
    /\ Items(solver.boards_to_check) # {}
    /\ Len(parent_chain(solver, Default, Cardinality(DOMAIN solver.parents))) >= 4

\* C31: in every state of a run on a new engine the depth recorded for the
\* start is 0; the depth recorded for a board with a parent entry is the depth
\* of its parent plus 1, which is the length of its chain of parents;
\* max_depth_reached is at least every recorded depth; and on success
\* solution_moves is the depth recorded for the goal, at most max_depth_reached.
DepthsWellFormed ==
    LET ps == solver.parents
        depth == solver.depth_by_board
    IN  /\ pc # "scramble" => (start \in DOMAIN depth /\ depth[start] = 0)
        /\ \A c \in DOMAIN ps :
              /\ c \in DOMAIN depth /\ ps[c] \in DOMAIN depth
              /\ depth[c] = depth[ps[c]] + 1
              /\ depth[c] = Len(parent_chain(solver, c, Cardinality(DOMAIN ps))) - 1
        /\ \A c \in DOMAIN depth : solver.max_depth_reached >= depth[c]
        /\ Returned =>
              /\ solution_moves(solver) = depth[result.board]
              /\ solution_moves(solver) <= solver.max_depth_reached

\* a successful run of at least three moves that went deeper than its solution
DepthsWellFormedWitness ==
    /\ Returned
    /\ solution_moves(solver) >= 3
    /\ solver.max_depth_reached > solution_moves(solver)

\* C32: a board marked explored stays explored, is not inserted into the
\* frontier again, and keeps its parent and depth entries for the rest of the
\* run: a step changes or adds parent and depth entries only of boards that
\* are still unexplored after it.
ExploredIsFrozen ==
    [][/\ solver.boards_checked \subseteq solver'.boards_checked
       /\ \A c \in solver'.boards_checked :
             /\ Occurrences(solver'.boards_to_check, c)
                   <= Occurrences(solver.boards_to_check, c)
             /\ MapGet(solver'.parents, c, ZeroBoard) = MapGet(solver.parents, c, ZeroBoard)
             /\ MapGet(solver'.depth_by_board, c, -1)
                   = MapGet(solver.depth_by_board, c, -1)]_vars

\* a run in progress whose frontier holds a board that is explored already
ExploredIsFrozenWitness ==
    /\ pc = "solve"
    /\ pops >= 3
    /\ ExploredEntries(solver) > 0

\* C33: in a breadth-first run on a new engine every depth recorded for a
\* board is its least number of legal moves from the start, also for a board
\* enqueued more than once, and the boards are first explored in
\* non-decreasing order of that distance.
BfsDepthIsDistance ==
    (strategy = "Bfs" /\ pc # "scramble") =>
       LET far == solver.max_depth_reached
           balls == within_loop(<<{start}>>, far)
           dist(c) == CHOOSE k \in 0..far :
                         c \in balls[k + 1] /\ (k = 0 \/ c \notin balls[k])
           first(i) == \A h \in 1..(i - 1) : removed[h] # removed[i]
       IN  /\ \A c \in DOMAIN solver.depth_by_board :
                 /\ c \in balls[far + 1]
                 /\ solver.depth_by_board[c] = dist(c)
           /\ \A i, j \in 1..Len(removed) :
                 (i < j /\ first(i) /\ first(j)) =>
                    dist(removed[i]) <= dist(removed[j])

\* a breadth-first run whose frontier holds some board twice: its parent and
\* depth entries were written twice
BfsDepthIsDistanceWitness ==
    /\ strategy = "Bfs"
    /\ pc = "solve"
    /\ solver.max_depth_reached >= 3
    /\ \E c \in Items(solver.boards_to_check) :
          Occurrences(solver.boards_to_check, c) >= 2

\* C34: the only failure of a board operation is the illegal-direction error:
\* on the board of the scramble and on the board the search removed last (the
\* boards the operations are applied to), find_space_position is the
\* one cell in 0..8 held by no tile, a move in a legal direction finds a tile
\* at the target cell (the assertion of get_value holds) and yields a valid
\* board, a move in an illegal direction is an Err; no run panics.
NoPanic ==
    /\ pc # "panic"
    /\ \A b \in {board} \cup {removed[i] : i \in {Len(removed)} \ {0}} :
          LET e == find_space_position(b)
          IN  /\ ValidBoard(b)
              /\ e \in 0..(BOARD_AREA - 1)
              /\ \A val \in 0..(BOARD_AREA - 2) : get_pos(b, val) # e
              /\ \A x \in 0..(BOARD_AREA - 1) :
                    x # e => \E val \in 0..(BOARD_AREA - 2) : get_pos(b, val) = x
              /\ \A d \in Direction :
                    LET r == move_space(b, d)
                    IN  IF OffGrid(e, d) THEN r.tag = "Err"
                        ELSE /\ get_value(b, NeighbourCell(e, d)) \in 0..(BOARD_AREA - 2)
                             /\ r.tag = "Ok"
                             /\ ValidBoard(r.board)

\* a search that has returned after a scramble whose last draw was illegal
NoPanicWitness ==
    /\ Returned
    /\ pops >= 5
    /\ lastRes = "Err"
    /\ solver.generated_nodes >= 10

====
